---- MODULE Spec2Model ----
(***************************************************************************)
(* FlameCanvas (src/src/components/FlameCanvas.jsx): the ping-pong heat    *)
(* simulation, its frame loop animate() and the pointer handlers.          *)
(*                                                                         *)
(* Numbers.  Heat is kept in thousandths (0.002 is 2, 0.8 is 800) and is   *)
(* rounded to the nearest thousandth when a pass stores it, as the         *)
(* half-float render target quantises what the shader writes.  Texture     *)
(* coordinates and pointer coordinates are kept in units of 1/PosScale.    *)
(***************************************************************************)
EXTENDS Integers, FiniteSets, Sequences, TLC

\* ------------------------------------------------------------------ bounds
\* side of the simulation grid (simRes is 256 in the source, line 28); 5 is the
\* smallest grid with a cell two cells away from every edge
simRes == 5
\* input events handled between two frames
MaxEvents == 2
\* fingers on the screen at once
MaxTouches == 2
\* a frame whose snapshot has the pen down is explored only while the source
\* field's maximum is at most this much heat (thousandths); pen-up frames are
\* not limited
MaxDrawHeat == 0

\* ------------------------------------------------------- program constants
DecayConstant == 2
InjectionStrength == 800
BrushRadiusMilli == 68

PosScale == 1000 * simRes
BrushRadius == BrushRadiusMilli * simRes

\* window sizes <<innerWidth, innerHeight>> the browser may take
Viewports == {<<600, 600>>, <<600, 1200>>}
\* clientX / clientY of the pointer events
ClientXs == {510}
ClientYs == {60}
\* e.button of a mousedown: 0 primary, 1 middle, 2 secondary
Buttons == {0, 1, 2}

RTs == {"rt1", "rt2"}
Idx == 0 .. (simRes - 1)
Cells == Idx \X Idx
ZeroField == [c \in Cells |-> 0]

VARIABLES
    targetA, targetB,   \* the two let-bindings of the render targets
    tex,                \* contents (red channel) of each render target's texture
    prev,               \* simMat.uniforms.prev.value
    simMouse,           \* simMat.uniforms.mouse.value
    aspect,             \* simMat.uniforms.aspect.value, as <<w, h>> for w / h
    dispTex,            \* displayMat.uniforms.tex.value
    material,           \* mesh.material
    mouse,              \* mouse.current
    win,                \* <<window.innerWidth, window.innerHeight>>
    pc,                 \* the next step of animate(), or "animate": waiting to be called
    listening,          \* the window listeners are registered
    pending,            \* frame callbacks requested and not yet run
    written,            \* history: the target the last simulation pass rendered into
    sampled,            \* history: the texture the last display pass sampled
    primary,            \* history: primary mouse button "idle" | "held" | "released"
    touches,            \* history: fingers on the screen
    handled,            \* history: pointer events handled since the last frame ended
    effect,             \* the useEffect body: "setup" | "live" | "cleaned" (cleanup has run)
    disposed,           \* the render targets dispose() was called on
    lost,               \* the render targets whose storage went with a lost WebGL context
    smoke,              \* the state of the SmokeCanvas component (lines 300-419)
    odd,                \* history: an odd number of frames has completed
    frag                \* one fragment of the display shader: its inputs and its output

vars == <<targetA, targetB, tex, prev, simMouse, aspect, dispTex, material, mouse,
          win, pc, listening, pending, written, sampled, primary, touches,
          handled, effect, disposed, lost, smoke, odd, frag>>

bufVars == <<targetA, targetB, tex>>
uniVars == <<prev, simMouse, dispTex, material>>
ptrVars == <<mouse, primary, touches>>
histVars == <<written, sampled>>
lifeVars == <<effect, disposed, lost>>

\* ------------------------------------------------------------- arithmetic
Max2(a, b) == IF a >= b THEN a ELSE b
Min2(a, b) == IF a <= b THEN a ELSE b
\* n / d rounded to the nearest integer, n >= 0, d > 0
Round(n, d) == (2 * n + d) \div (2 * d)
\* the largest r in lo .. hi with r * r <= n, by bisection; mid is bound as the
\* element of a singleton set, which computes it once
RECURSIVE SqrtBetween(_, _, _)
SqrtBetween(n, lo, hi) ==
    IF lo >= hi
    THEN lo
    ELSE CHOOSE r \in {IF mid * mid <= n
                       THEN SqrtBetween(n, mid, hi)
                       ELSE SqrtBetween(n, lo, mid - 1) : mid \in {(lo + hi + 1) \div 2}} : TRUE

\* floor of the square root, for 0 <= n <= BrushRadius^2
ISqrt(n) == CHOOSE r \in {SqrtBetween(v, 0, BrushRadius) : v \in {n}} : TRUE

FieldMax(f) == CHOOSE v \in {f[c] : c \in Cells} : \A c \in Cells : f[c] <= v
AllZero(f) == \A c \in Cells : f[c] = 0

\* ------------------------------------------------------ simulation shader
\* texture2D(prev, uv) one texel away from the centre of a texel is the centre
\* of texel <<i, j>>, where the linear filter returns the texel itself; the
\* texture wraps with ClampToEdge, the default of a render target (lines 29-35)
\* the texture repeats instead (RepeatWrapping)
WrapIdx(i) == (i + simRes) % simRes

ClampIdx(i) == Max2(0, Min2(simRes - 1, i))
Texel(f, i, j) == f[<<ClampIdx(i), ClampIdx(j)>>]

\* the centre sample left out of the sum
Sum5NoCentre(f, i, j) ==
    Texel(f, i, j + 1) + Texel(f, i, j - 1) + Texel(f, i - 1, j) + Texel(f, i + 1, j)

\* 5 * avg of line 71
Sum5(f, i, j) ==
    Texel(f, i, j + 1) + Texel(f, i, j - 1) + Texel(f, i - 1, j) + Texel(f, i + 1, j)
    + Texel(f, i, j)

\* the arguments of mix exchanged: mix(avg, center, 0.6)
Mix25Swapped(f, i, j) == 15 * Texel(f, i, j) + 2 * Sum5(f, i, j)

\* 25 * mix(center, avg, 0.6) of line 72
Mix25(f, i, j) == 10 * Texel(f, i, j) + 3 * Sum5(f, i, j)

\* the constant added instead of subtracted
CooledWarming(f, i, j) == Round(Mix25(f, i, j) * 197, 5000) + DecayConstant

\* the multiplicative decay alone
CooledNoConstant(f, i, j) == Round(Mix25(f, i, j) * 197, 5000)

\* the decay of the other version of the shader: diff *= 0.99
CooledSlowly(f, i, j) == Round(Mix25(f, i, j) * 198, 5000) - DecayConstant

\* lines 74-75: diff *= 0.985; diff -= 0.002
Cooled(f, i, j) == Round(Mix25(f, i, j) * 197, 5000) - DecayConstant

\* uv of the centre of texel i, in 1/PosScale
UvOf(i) == 500 * (2 * i + 1)

\* squared length of d (lines 78-80), d.x scaled by aspect = a[1] / a[2]
Len2(i, j, m, a) ==
    LET dx == ((UvOf(i) - m.x) * a[1]) \div a[2]
        dy == UvOf(j) - m.y
    IN  dx * dx + dy * dy

\* the edges taken in rising order, smoothstep(0.0, 0.068, len)
SmoothstepRising(len) ==
    LET t == Max2(0, Min2(100, (len * 100) \div BrushRadius))
    IN  t * t * (300 - 2 * t)

\* smoothstep(0.068, 0.0, len) in millionths, t in hundredths.  The edges are
\* given in falling order; the value is the one the defining expression
\* t = clamp((len - 0.068) / (0.0 - 0.068), 0, 1), t * t * (3 - 2 * t) yields.
Smoothstep(len) ==
    LET t == Max2(0, Min2(100, ((BrushRadius - len) * 100) \div BrushRadius))
    IN  t * t * (300 - 2 * t)

\* the pen flag read the wrong way round: heat is added while the pen is up
InjectionPenUp(i, j, m, a) ==
    LET len2 == Len2(i, j, m, a)
    IN  IF len2 < BrushRadius * BrushRadius
        THEN Round(Smoothstep(ISqrt(len2)) * (InjectionStrength \div 100) * (1 - m.z), 10000)
        ELSE 0

\* lines 82-85: what the brush adds to the cell
Injection(i, j, m, a) ==
    LET len2 == Len2(i, j, m, a)
    IN  IF len2 < BrushRadius * BrushRadius
        THEN Round(Smoothstep(ISqrt(len2)) * (InjectionStrength \div 100) * m.z, 10000)
        ELSE 0

\* the result stored without the clamp
FragmentUnclamped(f, i, j, m, a) == Cooled(f, i, j) + Injection(i, j, m, a)

\* line 87: the red channel the pass writes for texel <<i, j>>; diff is bound
\* as the element of a singleton set, which computes it once
Fragment(f, i, j, m, a) ==
    CHOOSE v \in {Max2(diff, 0) : diff \in {Cooled(f, i, j) + Injection(i, j, m, a)}} : TRUE

\* one simulation pass over the whole target
Step(f, m, a) == [c \in Cells |-> Fragment(f, c[1], c[2], m, a)]

\* ------------------------------------------------------- display fragment
\* no fragment has been shaded
NoFragment ==
    [stage |-> "none", heat |-> 0, cut |-> 0, noisy |-> 0, spec |-> 0, diff |-> 0,
     ramp |-> <<0, 0, 0>>, col |-> <<0, 0, 0>>, alpha |-> 0]

\* ------------------------------------------------------------ SmokeCanvas
\* lines 305, 317-318, 325-329: SmokeCanvas before its first frame.  gen is the
\* number of simulation steps behind the contents of each render target;
\* written, screen and shown are history: the target the last simulation pass
\* rendered into, the texture the last on-screen pass sampled and the number of
\* steps behind what it drew.
SmokeStart ==
    [rtA |-> "s1", rtB |-> "s2", uTexture |-> "none",
     gen |-> [r \in {"s1", "s2"} |-> 0],
     mouse |-> [x |-> 0, y |-> 0, dx |-> 0, dy |-> 0],
     uMouse |-> [x |-> 0, y |-> 0, z |-> 0, w |-> 0],
     pc |-> "animate", listening |-> FALSE, pending |-> 0,
     written |-> "none", screen |-> "none", shown |-> 0]

\* ------------------------------------------------------------------- init
\* the pointer starts with the pen up
InitPenUp ==
    /\ targetA = "rt1"
    /\ targetB = "rt2"
    /\ tex = [r \in RTs |-> ZeroField]
    /\ prev = "rt1"
    /\ simMouse = [x |-> 0, y |-> 0, z |-> 0]
    /\ win \in Viewports
    /\ aspect = win
    /\ dispTex = "rt1"
    /\ material = "simMat"
    /\ mouse = [x |-> PosScale \div 2, y |-> PosScale \div 2, z |-> 0]
    /\ pc = "animate"
    /\ listening = FALSE
    /\ pending = 0
    /\ written = "none"
    /\ sampled = "none"
    /\ primary = "idle"
    /\ touches = 0
    /\ handled = 0
    /\ effect = "setup"
    /\ disposed = {}
    /\ lost = {}
    /\ smoke = SmokeStart
    /\ odd = FALSE
    /\ frag = NoFragment

\* lines 6-48: the state when animate(0) is called
Init ==
    /\ targetA = "rt1"
    /\ targetB = "rt2"
    /\ tex = [r \in RTs |-> ZeroField]
    /\ prev = "rt1"
    /\ simMouse = [x |-> 0, y |-> 0, z |-> 0]
    /\ win \in Viewports
    /\ aspect = win
    /\ dispTex = "rt1"
    /\ material = "simMat"
    /\ mouse = [x |-> PosScale \div 2, y |-> PosScale \div 2, z |-> 1]
    /\ pc = "animate"
    /\ listening = FALSE
    /\ pending = 0
    /\ written = "none"
    /\ sampled = "none"
    /\ primary = "idle"
    /\ touches = 0
    /\ handled = 0
    /\ effect = "setup"
    /\ disposed = {}
    /\ lost = {}
    /\ smoke = SmokeStart
    /\ odd = FALSE
    /\ frag = NoFragment

\* ---------------------------------------------------------------- animate
\* the source bound to the buffer that is about to be rendered into
SimSourceIsTarget == targetB

\* line 203: the texture the simulation pass samples
SimSource == targetA

\* the pen flag of the previous frame is kept
PointerUniformStale(m) == [x |-> m.x, y |-> PosScale - m.y, z |-> simMouse.z]

\* line 204: the pointer as the shader sees it, y flipped
PointerUniform(m) == [x |-> m.x, y |-> PosScale - m.y, z |-> m.z]

\* line 206: the target the simulation pass renders into
SimTarget == targetB

\* line 216: the texture the display pass samples
DisplaySource == targetA

\* lines 199-204: the pointer is read into the uniform, the source is bound
Snapshot ==
    /\ pc = "animate"
    /\ effect = "setup" \/ pending > 0
    /\ mouse.z = 1 => \A c \in Cells : tex[targetA][c] <= MaxDrawHeat
    /\ material' = "simMat"
    /\ prev' = SimSource
    /\ simMouse' = PointerUniform(mouse)
    /\ pending' = IF pending > 0 THEN pending - 1 ELSE 0
    /\ pc' = "simulate"
    /\ UNCHANGED <<bufVars, aspect, dispTex, ptrVars, win, listening, histVars, handled,
                   lifeVars, smoke, odd, frag>>

\* the pass blends its output onto what the target already holds
SimPassBlended ==
    /\ pc = "simulate"
    /\ tex' = [tex EXCEPT ![SimTarget] =
                  [c \in Cells |-> Step(tex[prev], simMouse, aspect)[c] + tex[SimTarget][c]]]
    /\ written' = SimTarget
    /\ pc' = "swap"
    /\ UNCHANGED <<targetA, targetB, uniVars, aspect, ptrVars, win, listening, pending,
                   sampled, handled, lifeVars, smoke, odd, frag>>

\* lines 206-208: render the scene (simMat) into targetB
SimPass ==
    /\ pc = "simulate"
    /\ tex' = [tex EXCEPT ![SimTarget] = Step(tex[prev], simMouse, aspect)]
    /\ written' = SimTarget
    /\ pc' = "swap"
    /\ UNCHANGED <<targetA, targetB, uniVars, aspect, ptrVars, win, listening, pending,
                   sampled, handled,
                   lifeVars, smoke, odd, frag>>

\* the roles are left as they were
SwapSkipped ==
    /\ pc = "swap"
    /\ pc' = "display"
    /\ UNCHANGED <<bufVars, uniVars, aspect, ptrVars, win, listening, pending, histVars, handled,
                   lifeVars, smoke, odd, frag>>

\* the written field is copied into the current buffer, the roles stay
SwapCopies ==
    /\ pc = "swap"
    /\ tex' = [tex EXCEPT ![targetA] = tex[targetB]]
    /\ pc' = "display"
    /\ UNCHANGED <<targetA, targetB, uniVars, aspect, ptrVars, win, listening, pending,
                   histVars, handled, lifeVars, smoke, odd, frag>>

\* lines 210-212
Swap ==
    /\ pc = "swap"
    /\ targetA' = targetB
    /\ targetB' = targetA
    /\ pc' = "display"
    /\ UNCHANGED <<tex, uniVars, aspect, ptrVars, win, listening, pending, histVars, handled,
                   lifeVars, smoke, odd, frag>>

\* lines 215-218 and the RenderPass of composer.render() (line 220)
DisplayPass ==
    /\ pc = "display"
    /\ material' = "displayMat"
    /\ dispTex' = DisplaySource
    /\ sampled' = dispTex'
    /\ pc' = "bloom"
    /\ UNCHANGED <<bufVars, prev, simMouse, aspect, ptrVars, win, listening, pending,
                   written, handled,
                   lifeVars, smoke, odd, frag>>

\* the EffectPass (bloom) of composer.render(), line 220
Bloom ==
    /\ pc = "bloom"
    /\ pc' = "request"
    /\ UNCHANGED <<bufVars, uniVars, aspect, ptrVars, win, listening, pending, histVars, handled,
                   lifeVars, smoke, odd, frag>>

\* the frame asks for two callbacks
RequestFrameTwice ==
    /\ pc = "request"
    /\ pending' = pending + 2
    /\ handled' = 0
    /\ odd' = ~odd
    /\ pc' = IF effect = "setup" THEN "register" ELSE "animate"
    /\ UNCHANGED <<bufVars, uniVars, aspect, ptrVars, win, listening, histVars,
                   lifeVars, smoke, frag>>

\* line 221, the last statement of the frame; the first call returns into the
\* effect body, later ones to the browser
RequestFrame ==
    /\ pc = "request"
    /\ pending' = pending + 1
    /\ handled' = 0
    /\ odd' = ~odd
    /\ pc' = IF effect = "setup" THEN "register" ELSE "animate"
    /\ UNCHANGED <<bufVars, uniVars, aspect, ptrVars, win, listening, histVars,
                   lifeVars, smoke, frag>>

\* lines 272-278
RegisterListeners ==
    /\ pc = "register"
    /\ listening' = TRUE
    /\ effect' = "live"
    /\ pc' = "animate"
    /\ UNCHANGED <<bufVars, uniVars, aspect, ptrVars, win, pending, histVars, handled,
                   disposed, lost, smoke, odd, frag>>

Animate == Snapshot \/ SimPass \/ Swap \/ DisplayPass \/ Bloom \/ RequestFrame

\* ---------------------------------------------------------------- cleanup
\* the frame callback is cancelled before the buffers are released
CleanupCancels ==
    /\ pc = "animate"
    /\ effect = "live"
    /\ listening' = FALSE
    /\ pending' = 0
    /\ disposed' = {targetA, targetB}
    /\ tex' = [r \in RTs |-> ZeroField]
    /\ effect' = "cleaned"
    /\ UNCHANGED <<targetA, targetB, uniVars, aspect, ptrVars, win, pc, histVars,
                   handled, lost, smoke, odd, frag>>

\* lines 280-295, the function the effect returns: React calls it on unmount,
\* between two frames.  The listeners are removed and both render targets are
\* disposed; the requested frame callback is not cancelled.  dispose() releases
\* a target's storage: what is read from it afterwards is empty.
Cleanup ==
    /\ pc = "animate"
    /\ effect = "live"
    /\ listening' = FALSE
    /\ disposed' = {targetA, targetB}
    /\ tex' = [r \in RTs |-> ZeroField]
    /\ effect' = "cleaned"
    /\ UNCHANGED <<targetA, targetB, uniVars, aspect, ptrVars, win, pc, pending,
                   histVars, handled, lost, smoke, odd, frag>>

\* ----------------------------------------------------------------- events
\* a handler runs between two calls of animate, once the listeners are there
CanHandle == pc = "animate" /\ listening

\* clientX / window.innerWidth in 1/PosScale
Normalize(client, size) == (client * PosScale) \div size

\* a pen event other than the primary button's own ends a press-release sequence
PenEvent == primary' = "idle"

\* the resize handler also clears both buffers
onResizeResets ==
    /\ CanHandle
    /\ \E v \in Viewports :
        /\ v # win
        /\ win' = v
        /\ aspect' = v
    /\ tex' = [r \in RTs |-> ZeroField]
    /\ UNCHANGED <<targetA, targetB, uniVars, ptrVars, pc, listening, pending, histVars,
                   handled, lifeVars, smoke, odd, frag>>

\* the resize handler leaves the aspect uniform as it was
onResizeKeepsAspect ==
    /\ CanHandle
    /\ \E v \in Viewports :
        /\ v # win
        /\ win' = v
    /\ UNCHANGED <<bufVars, uniVars, aspect, ptrVars, pc, listening, pending, histVars,
                   handled, lifeVars, smoke, odd, frag>>

\* lines 227-233
onResize ==
    /\ CanHandle
    /\ \E v \in Viewports :
        /\ v # win
        /\ win' = v
        /\ aspect' = v
    /\ UNCHANGED <<bufVars, uniVars, ptrVars, pc, listening, pending, histVars, handled,
                   lifeVars, smoke, odd, frag>>

\* the handler stores x and leaves y as it was
onMouseMoveXOnly ==
    /\ CanHandle
    /\ handled < MaxEvents
    /\ \E cx \in ClientXs :
        mouse' = [mouse EXCEPT !.x = Normalize(cx, win[1])]
    /\ handled' = handled + 1
    /\ UNCHANGED <<bufVars, uniVars, aspect, win, pc, listening, pending, histVars,
                   primary, touches, lifeVars, smoke, odd, frag>>

\* lines 235-238
onMouseMove ==
    /\ CanHandle
    /\ handled < MaxEvents
    /\ \E cx \in ClientXs, cy \in ClientYs :
        mouse' = [mouse EXCEPT !.x = Normalize(cx, win[1]), !.y = Normalize(cy, win[2])]
    /\ handled' = handled + 1
    /\ UNCHANGED <<bufVars, uniVars, aspect, win, pc, listening, pending, histVars,
                   primary, touches,
                   lifeVars, smoke, odd, frag>>

\* lines 240-243
onMouseDown(button) ==
    /\ CanHandle
    /\ handled < MaxEvents
    /\ mouse' = [mouse EXCEPT !.z = IF button = 0 THEN 1
                                    ELSE IF button = 2 THEN 0 ELSE @]
    /\ primary' = IF button = 0 THEN "held" ELSE "idle"
    /\ handled' = handled + 1
    /\ UNCHANGED <<bufVars, uniVars, aspect, win, pc, listening, pending, histVars,
                   touches,
                   lifeVars, smoke, odd, frag>>

\* the primary button is let go: no listener is registered for mouseup (lines 272-278)
MouseUp ==
    /\ CanHandle
    /\ handled < MaxEvents
    /\ primary = "held"
    /\ primary' = "released"
    /\ handled' = handled + 1
    /\ UNCHANGED <<bufVars, uniVars, aspect, win, pc, listening, pending, histVars,
                   mouse, touches,
                   lifeVars, smoke, odd, frag>>

\* the position update also puts the pen down
updateTouchPenDown(m, n, cx, cy) ==
    IF n > 0
    THEN [x |-> Normalize(cx, win[1]), y |-> Normalize(cy, win[2]), z |-> 1]
    ELSE m

\* lines 249-255, e.touches[0] at <<cx, cy>>
updateTouch(m, n, cx, cy) ==
    IF n > 0
    THEN [m EXCEPT !.x = Normalize(cx, win[1]), !.y = Normalize(cy, win[2])]
    ELSE m

\* lines 257-261
onTouchStart ==
    /\ CanHandle
    /\ handled < MaxEvents
    /\ touches < MaxTouches
    /\ touches' = touches + 1
    /\ \E cx \in ClientXs, cy \in ClientYs :
        mouse' = updateTouch([mouse EXCEPT !.z = 1], touches', cx, cy)
    /\ PenEvent
    /\ handled' = handled + 1
    /\ UNCHANGED <<bufVars, uniVars, aspect, win, pc, listening, pending, histVars,
                   lifeVars, smoke, odd, frag>>

\* lines 263-266
onTouchMove ==
    /\ CanHandle
    /\ handled < MaxEvents
    /\ touches > 0
    /\ \E cx \in ClientXs, cy \in ClientYs :
        mouse' = updateTouch(mouse, touches, cx, cy)
    /\ handled' = handled + 1
    /\ UNCHANGED <<bufVars, uniVars, aspect, win, pc, listening, pending, histVars,
                   primary, touches,
                   lifeVars, smoke, odd, frag>>

\* the pen is lifted only when the last finger leaves the screen
onTouchEndLastFinger ==
    /\ CanHandle
    /\ handled < MaxEvents
    /\ touches > 0
    /\ touches' = touches - 1
    /\ mouse' = [mouse EXCEPT !.z = IF touches' = 0 THEN 0 ELSE @]
    /\ PenEvent
    /\ handled' = handled + 1
    /\ UNCHANGED <<bufVars, uniVars, aspect, win, pc, listening, pending, histVars,
                   lifeVars, smoke, odd, frag>>

\* lines 268-270
onTouchEnd ==
    /\ CanHandle
    /\ handled < MaxEvents
    /\ touches > 0
    /\ touches' = touches - 1
    /\ mouse' = [mouse EXCEPT !.z = 0]
    /\ PenEvent
    /\ handled' = handled + 1
    /\ UNCHANGED <<bufVars, uniVars, aspect, win, pc, listening, pending, histVars,
                   lifeVars, smoke, odd, frag>>

Event ==
    onResize \/ onMouseMove \/ (\E button \in Buttons : onMouseDown(button)) \/ MouseUp \/ onTouchStart \/ onTouchMove
    \/ onTouchEnd

Next == Animate \/ RegisterListeners \/ Event \/ Cleanup

\* the browser loses the WebGL context between two frames.  The component
\* registers no webglcontextlost or webglcontextrestored listener (lines
\* 272-278) and calls createRT at mount only (lines 37-38): targetA and targetB
\* stay the two render targets of the lost context, whose contents are gone.
ContextLost ==
    /\ pc = "animate"
    /\ effect = "live"
    /\ lost = {}
    /\ lost' = {targetA, targetB}
    /\ tex' = [r \in RTs |-> ZeroField]
    /\ UNCHANGED <<targetA, targetB, uniVars, aspect, ptrVars, win, pc, listening, pending,
                   histVars, handled, effect, disposed, smoke, odd, frag>>

\* the component in a browser that may lose the context
LossSpec == Init /\ [][Next \/ ContextLost]_vars

Spec == Init /\ [][Next]_vars

\* the browser keeps calling the requested frame callback
FairSpec == Spec /\ WF_vars(Animate)

\* the browser keeps calling the requested frame callback, and the effect body
\* (lines 224-278) runs to its end once animate(0) has returned
LoopSpec == Spec /\ WF_vars(Animate) /\ WF_vars(RegisterListeners)

\* ----------------------------------------------- the pass as a function
\* One simulation pass from any field of a bounded family and any pointer
\* snapshot: the cells of ProbeCells (a corner, an edge cell with its in-range
\* neighbours, two cells off the edge) take every combination of the heat
\* levels, the other cells share one level.
HeatLevels == {0, 2, 700}
ProbeCells == {<<0, 0>>, <<0, 1>>, <<0, 2>>, <<1, 1>>, <<2, 1>>, <<2, 2>>}
SampleFields ==
    {[c \in Cells |-> IF c \in ProbeCells THEN g[c] ELSE bg] :
        g \in [ProbeCells -> HeatLevels], bg \in HeatLevels}
SamplePointers ==
    {[x |-> PosScale \div 2, y |-> PosScale \div 2, z |-> z] : z \in {0, 1}}
    \cup {[x |-> Normalize(cx, v[1]), y |-> Normalize(cy, v[2]), z |-> z] :
            cx \in ClientXs, cy \in ClientYs, v \in Viewports, z \in {0, 1}}

KernelInit ==
    /\ targetA = "rt1"
    /\ targetB = "rt2"
    /\ \E f \in SampleFields : tex = [r \in RTs |-> IF r = "rt1" THEN f ELSE ZeroField]
    /\ prev = SimSource
    /\ mouse \in SamplePointers
    /\ simMouse = PointerUniform(mouse)
    /\ win \in Viewports
    /\ aspect = win
    /\ dispTex = "rt1"
    /\ material = "simMat"
    /\ pc = "simulate"
    /\ listening = TRUE
    /\ pending = 0
    /\ written = "none"
    /\ sampled = "none"
    /\ primary = "idle"
    /\ touches = 0
    /\ handled = 0
    /\ effect = "live"
    /\ disposed = {}
    /\ lost = {}
    /\ smoke = SmokeStart
    /\ odd = FALSE
    /\ frag = NoFragment

KernelSpec == KernelInit /\ [][SimPass]_vars

\* ------------------------------------------------- frames over a hot field
\* (0.8 - 0.002) / (1 - 0.985) in thousandths, the fixed point of
\* h = 0.985 * h - 0.002 + 0.8 (lines 74-75 and 84)
HeatCap == ((InjectionStrength - DecayConstant) * 200) \div 3

\* lines 199-204 over a field of any heat
SnapshotAnyHeat ==
    /\ pc = "animate"
    /\ effect = "setup" \/ pending > 0
    /\ material' = "simMat"
    /\ prev' = SimSource
    /\ simMouse' = PointerUniform(mouse)
    /\ pending' = IF pending > 0 THEN pending - 1 ELSE 0
    /\ pc' = "simulate"
    /\ UNCHANGED <<bufVars, aspect, dispTex, ptrVars, win, listening, histVars, handled,
                   lifeVars, smoke, odd, frag>>

\* the fields the frames start from: the zeroed one of mount and the hottest
\* one the bound allows, every cell at HeatCap
BoundFields == {[c \in Cells |-> h] : h \in {0, HeatCap}}

\* a running component between two frames, the pointer and the window as
\* some handler left them
BoundInit ==
    /\ targetA = "rt1"
    /\ targetB = "rt2"
    /\ \E f \in BoundFields : tex = [r \in RTs |-> IF r = "rt1" THEN f ELSE ZeroField]
    /\ prev = "rt1"
    /\ mouse \in SamplePointers
    /\ simMouse = PointerUniform(mouse)
    /\ win \in Viewports
    /\ aspect = win
    /\ dispTex = "rt1"
    /\ material = "displayMat"
    /\ pc = "animate"
    /\ listening = TRUE
    /\ pending = 1
    /\ written = "none"
    /\ sampled = "none"
    /\ primary = "idle"
    /\ touches = 0
    /\ handled = 0
    /\ effect = "live"
    /\ disposed = {}
    /\ lost = {}
    /\ smoke = SmokeStart
    /\ odd = FALSE
    /\ frag = NoFragment

\* frame after frame with the pointer held where it is
BoundNext == SnapshotAnyHeat \/ SimPass \/ Swap \/ DisplayPass \/ Bloom \/ RequestFrame

BoundSpec == BoundInit /\ [][BoundNext]_vars

\* ================================================================== claims

\* C1: in every simulation pass the texture bound as the source (prev) and the
\* render target the pass writes are two different buffers, before the pass
\* runs and after it has run.
ReadWriteDistinct ==
    /\ pc = "simulate" => prev # SimTarget
    /\ pc = "swap" => written # prev

\* a pass of a later frame, the roles exchanged: it read rt2 and wrote rt1
ReadWriteDistinctWitness == pc = "swap" /\ prev = "rt2" /\ written = "rt1"

\* the order of the phases of animate()
FrameOrder ==
    {<<"animate", "simulate">>, <<"simulate", "swap">>, <<"swap", "display">>,
     <<"display", "bloom">>, <<"bloom", "request">>, <<"request", "animate">>,
     <<"request", "register">>, <<"register", "animate">>}

PhaseStep ==
    /\ pc' # pc => <<pc, pc'>> \in FrameOrder
    /\ simMouse' # simMouse => pc = "animate" /\ pc' = "simulate"
    /\ (tex' # tex /\ effect' = effect) =>
         /\ pc = "simulate" /\ pc' = "swap"
         /\ tex'[targetA] = tex[targetA]
    /\ targetA' # targetA =>
         /\ pc = "swap" /\ pc' = "display"
         /\ targetA' = targetB /\ targetB' = targetA
    /\ sampled' # sampled => pc = "display" /\ pc' = "bloom"
    /\ pending' > pending => pc = "request"

\* C2: every frame runs pointer snapshot, simulation pass into the non-current
\* buffer, swap, display pass, bloom, request of the next frame, in this order,
\* and the display pass samples the buffer the simulation pass of the frame wrote.
FramePhases ==
    /\ [][PhaseStep]_vars
    /\ [](pc \in {"bloom", "request"} => sampled = written /\ dispTex = written)

\* the display pass of the second frame has sampled rt1, which its pass wrote
FramePhasesWitness == pc = "request" /\ written = "rt1" /\ sampled = "rt1"

\* what the brush adds to cell c in the pass that uses the bound uniforms
Injected(c) == Injection(c[1], c[2], simMouse, aspect)

\* C3: after primaryDown, move, move, release of the primary button, every
\* frame after the release injects no heat, whatever moves follow.
ReleaseStopsInjection ==
    (pc = "simulate" /\ primary = "released") => \A c \in Cells : Injected(c) = 0

\* the value a simulation pass computes for cell c before the clamp of line 87
Raw(c) == Cooled(tex[prev], c[1], c[2]) + Injected(c)

\* C6: after every simulation pass every cell of the written buffer is >= 0,
\* and a cell whose result before the clamp is negative holds exactly 0.
NonNegative ==
    /\ \A r \in RTs, c \in Cells : tex[r][c] >= 0
    /\ pc = "swap" => \A c \in Cells : Raw(c) < 0 => tex[written][c] = 0

\* a warm cell whose result went below zero was stored as 0
NonNegativeWitness ==
    /\ pc = "swap"
    /\ \E c \in Cells : tex[prev][c] > 0 /\ Raw(c) < 0 /\ tex[written][c] = 0

PenStep ==
    /\ (onMouseDown(0) \/ onTouchStart) => mouse'.z = 1
    /\ (onMouseDown(2) \/ MouseUp \/ onTouchEnd) => mouse'.z = 0

\* C7: a primary-button press or a touch-start sets the drawing flag, a
\* secondary-button press, a release or a touch-end clears it, from either state.
PenMachine == [][PenStep]_vars

\* the transitions of C7 that have a handler
PenMachineOfHandlers ==
    [][/\ (onMouseDown(0) \/ onTouchStart) => mouse'.z = 1
       /\ (onMouseDown(2) \/ onTouchEnd) => mouse'.z = 0]_vars

\* C8: a mouse-move or a touch-move leaves the drawing flag as it was, and
\* changes nothing of the buffers, the uniforms or the window.
MovesKeepPen ==
    [][(onMouseMove \/ onTouchMove) =>
          /\ mouse'.z = mouse.z
          /\ UNCHANGED <<bufVars, uniVars, aspect, win>>]_vars

\* one event since the snapshot, which moved the pointer with the pen up
MovesKeepPenWitness ==
    /\ pc = "animate" /\ handled = 1 /\ touches = 0
    /\ simMouse.z = 0 /\ mouse.z = 0
    /\ mouse.x # simMouse.x

\* C9: during a frame the uniform holds the pointer values the last handled
\* event left (y flipped), and the pass computed every cell from these values.
SnapshotCoalesced ==
    /\ pc \in {"simulate", "swap", "display", "bloom", "request", "register"} =>
         /\ simMouse.x = mouse.x
         /\ simMouse.y = PosScale - mouse.y
         /\ simMouse.z = mouse.z
    /\ pc = "swap" =>
         tex[written] =
             Step(tex[prev], [x |-> mouse.x, y |-> PosScale - mouse.y, z |-> mouse.z], aspect)

\* two events were handled before the read; the pass used the values they left
SnapshotCoalescedWitness ==
    /\ pc = "swap" /\ handled >= 2
    /\ simMouse.z = 0 /\ simMouse.x # PosScale \div 2

\* a simulation pass whose snapshot has the pen up
CoolingPass == SimPass /\ simMouse.z = 0

\* C4 as stated: with the pen up, no cell is hotter after a pass than before it.
CellsNeverGainHeat ==
    [][CoolingPass => \A c \in Cells : tex'[written'][c] <= tex[prev][c]]_vars

\* C4 as amended: with the pen up, the maximum over all cells does not grow in
\* a pass, and it shrinks in every pass as long as it is positive, so that an
\* all-zero field stays all-zero; single cells may gain heat from their
\* neighbours.
MaxNeverGrows ==
    [][CoolingPass =>
          /\ FieldMax(tex'[written']) <= FieldMax(tex[prev])
          /\ FieldMax(tex[prev]) > 0 => FieldMax(tex'[written']) < FieldMax(tex[prev])]_vars

\* a pen-up pass after which a cell is hotter than it was and the field is warm
MaxNeverGrowsWitness ==
    /\ pc = "swap" /\ simMouse.z = 0
    /\ \E c \in Cells : tex[written][c] > tex[prev][c]
    /\ FieldMax(tex[written]) < FieldMax(tex[prev])

\* C5: if the pen stays up from some frame on, then from some frame on every
\* cell of the current buffer is exactly 0, for good.
Extinction == <>[](mouse.z = 0) => <>[]AllZero(tex[targetA])

\* a field that was warm has gone out: the pass read a warm field's last
\* remains and wrote zeros
ExtinctionWitness ==
    /\ pc = "swap" /\ simMouse.z = 0
    /\ FieldMax(tex[prev]) > 0
    /\ AllZero(tex[written])

\* C10: from two all-zero buffers, every step other than a simulation pass with
\* the pen down (pointer moves, resizes, pen-up passes, swaps) leaves both
\* buffers all-zero.
OnlyBrushHeats ==
    [][(AllZero(tex[targetA]) /\ AllZero(tex[targetB]) /\ ~(SimPass /\ simMouse.z = 1)) =>
          (AllZero(tex'[targetA]) /\ AllZero(tex'[targetB]))]_vars

\* a pen-up pass over a cold field with the pointer inside the brush radius of
\* a cell, after a move and a resize
OnlyBrushHeatsWitness ==
    /\ pc = "swap" /\ simMouse.z = 0
    /\ AllZero(tex[prev]) /\ AllZero(tex[written])
    /\ simMouse.x # PosScale \div 2
    /\ aspect[1] # aspect[2]
    /\ \E c \in Cells : Len2(c[1], c[2], simMouse, aspect) < BrushRadius * BrushRadius

\* C11: on teardown both render targets are released, and once the cleanup has
\* run no simulation pass and no display pass executes again and no disposed
\* target is read or written.
TeardownEndsFrames ==
    /\ [](effect = "cleaned" => disposed = {targetA, targetB})
    /\ [][effect = "cleaned" => ~(SimPass \/ DisplayPass)]_vars
    /\ [][SimPass => (prev \notin disposed /\ SimTarget \notin disposed)]_vars

\* the part of C11 that the cleanup does: both targets are disposed
TeardownReleases == [](effect = "cleaned" => disposed = {targetA, targetB})

\* the cells with four in-range neighbours
Interior == {c \in Cells : c[1] \in 1 .. (simRes - 2) /\ c[2] \in 1 .. (simRes - 2)}

\* the sum of the four neighbours of an interior cell
Sum4(f, c) ==
    f[<<c[1], c[2] + 1>>] + f[<<c[1], c[2] - 1>>] + f[<<c[1] - 1, c[2]>>] + f[<<c[1] + 1, c[2]>>]

\* what the pass stores for cell c when k times the blended value is n: the
\* decay by 0.985 and 0.002, the brush term and the clamp
AfterBlend(n, k, c) == Max2(Round(n * 197, 200 * k) - DecayConstant + Injected(c), 0)

\* C12 as stated: avg is the mean of the four neighbours and the blended value
\* is center + 0.6 * (avg - center), here times 20: 20 center + 3 (sum of the
\* four) - 12 center.
AvgOfFourNeighbours ==
    pc = "swap" =>
        \A c \in Interior :
            tex[written][c] =
                AfterBlend(20 * tex[prev][c] + 3 * Sum4(tex[prev], c) - 12 * tex[prev][c], 20, c)

\* C12 as amended: avg is the mean of five samples, the four neighbours and the
\* cell itself, and the blended value is center + 0.6 * (avg - center), here
\* times 25: 25 center + 3 (sum of the five) - 15 center.
AvgOfFiveSamples ==
    pc = "swap" =>
        \A c \in Interior :
            tex[written][c] =
                AfterBlend(25 * tex[prev][c] + 3 * (Sum4(tex[prev], c) + tex[prev][c])
                           - 15 * tex[prev][c], 25, c)

\* a warm interior cell with warm neighbours, where the mean of four would
\* have given another value
AvgOfFiveSamplesWitness ==
    /\ pc = "swap"
    /\ \E c \in Interior :
        /\ tex[prev][c] > 0
        /\ Sum4(tex[prev], c) > 0
        /\ 4 * tex[prev][c] # Sum4(tex[prev], c)
        /\ tex[written][c] > 0
        /\ tex[written][c] #
              AfterBlend(20 * tex[prev][c] + 3 * Sum4(tex[prev], c) - 12 * tex[prev][c], 20, c)

\* the nearest in-range index
Nearest(i) == IF i < 0 THEN 0 ELSE IF i > simRes - 1 THEN simRes - 1 ELSE i

\* the in-range neighbours of a cell
InRange(c) ==
    {d \in Cells : (d[1] = c[1] /\ (d[2] - c[2]) \in {-1, 1}) \/ (d[2] = c[2] /\ (d[1] - c[1]) \in {-1, 1})}

\* the four neighbour lookups of cell c, a lookup outside the grid returning
\* the nearest in-range cell
Sum4Nearest(f, c) ==
    f[<<Nearest(c[1]), Nearest(c[2] + 1)>>] + f[<<Nearest(c[1]), Nearest(c[2] - 1)>>]
    + f[<<Nearest(c[1] - 1), Nearest(c[2])>>] + f[<<Nearest(c[1] + 1), Nearest(c[2])>>]

\* C13: for a cell on the edge or in a corner, a neighbour lookup outside the
\* grid returns the value of the nearest in-range cell, the edge cell itself;
\* nothing is read from the opposite edge: a cold edge cell with cold in-range
\* neighbours stays cold without the brush, whatever the rest of the field.
EdgeLookupsClamp ==
    /\ \A i \in -1 .. simRes : ClampIdx(i) \in Idx
    /\ pc = "swap" =>
          \A c \in Cells \ Interior :
              /\ tex[written][c] =
                    AfterBlend(10 * tex[prev][c] + 3 * (Sum4Nearest(tex[prev], c) + tex[prev][c]), 25, c)
              /\ (tex[prev][c] = 0 /\ Injected(c) = 0 /\ \A d \in InRange(c) : tex[prev][d] = 0)
                    => tex[written][c] = 0

\* a cold cell of the left edge with cold in-range neighbours stayed cold while
\* the cell across the grid was hot, and a hot corner counted itself for its
\* two missing neighbours
EdgeLookupsClampWitness ==
    /\ pc = "swap" /\ simMouse.z = 0
    /\ tex[prev][<<0, 1>>] = 0 /\ \A d \in InRange(<<0, 1>>) : tex[prev][d] = 0
    /\ tex[prev][<<simRes - 1, 1>>] > 0
    /\ tex[written][<<0, 1>>] = 0
    /\ tex[prev][<<1, 0>>] > 0
    /\ tex[written][<<simRes - 1, 0>>] =
          AfterBlend(10 * tex[prev][<<simRes - 1, 0>>]
                     + 3 * (3 * tex[prev][<<simRes - 1, 0>>] + tex[prev][<<simRes - 2, 0>>]
                            + tex[prev][<<simRes - 1, 1>>]), 25, <<simRes - 1, 0>>)
    /\ tex[written][<<simRes - 1, 0>>] > 0

\* the sum of g[0] .. g[k]
RECURSIVE SumTo(_, _)
SumTo(g, k) == IF k < 0 THEN 0 ELSE g[k] + SumTo(g, k - 1)

\* the sum of all cell values of a field
FieldSum(f) ==
    SumTo([k \in 0 .. (simRes * simRes - 1) |-> f[<<k \div simRes, k % simRes>>]],
          simRes * simRes - 1)

\* every non-zero cell is at least two cells away from every edge
HotSpotInside(f) ==
    \A c \in Cells :
        f[c] # 0 => (c[1] \in 2 .. (simRes - 3) /\ c[2] \in 2 .. (simRes - 3))

\* 25 times the field that diffusion alone makes of f: the blend of line 72,
\* no decay (factor 1, constant 0), no brush
Diffused25(f) == [c \in Cells |-> Mix25(f, c[1], c[2])]

\* C14: without the cooling and without injection, a diffusion step of a field
\* whose non-zero cells are all at least two cells away from every edge leaves
\* the sum of all cells unchanged.
DiffusionKeepsSum ==
    (pc = "swap" /\ simMouse.z = 0 /\ HotSpotInside(tex[prev])) =>
        FieldSum(Diffused25(tex[prev])) = 25 * FieldSum(tex[prev])

\* a hot spot two cells from every edge, part of whose heat went to a neighbour
DiffusionKeepsSumWitness ==
    /\ pc = "swap" /\ simMouse.z = 0 /\ HotSpotInside(tex[prev])
    /\ tex[prev][<<2, 2>>] > 0
    /\ Diffused25(tex[prev])[<<1, 2>>] > 0
    /\ Diffused25(tex[prev])[<<2, 2>>] < 25 * tex[prev][<<2, 2>>]

\* C15 as stated: the field a pass writes depends on the current field and the
\* pointer snapshot only, whatever resize happened before: it is the field a
\* pass from the same field and the same snapshot writes under every window
\* size a resize may have set.
PureOfFieldAndPointer ==
    pc = "swap" => \A v \in Viewports : tex[written] = Step(tex[prev], simMouse, v)

\* C15 as amended: the step is a function of the current field, the pointer
\* state at the snapshot and the aspect ratio of the window: every pass writes
\* Step of these three into the other buffer, whatever events happened before
\* and whatever the written buffer held, and leaves the current field as it was.
PureOfFieldPointerAspect ==
    [][SimPass =>
          /\ tex'[targetB] = Step(tex[targetA], PointerUniform(mouse), win)
          /\ tex'[targetA] = tex[targetA]]_vars

\* a pen-down pass after a resize, into a buffer that held something else,
\* whose result the other aspect ratio would have changed
PureOfFieldPointerAspectWitness ==
    /\ pc = "swap" /\ simMouse.z = 1 /\ odd
    /\ aspect[1] # aspect[2]
    /\ \E v \in Viewports : tex[written] # Step(tex[prev], simMouse, v)

\* lines 37-38: the buffer that is current, and the one that is next, at mount
InitiallyCurrent == "rt1"
InitiallyNext == "rt2"

\* C16: the swap only exchanges roles. targetA and targetB always are the two
\* distinct buffers created at mount; the swap step changes the contents of no
\* buffer and hands each role to the other buffer; within a frame only the
\* buffer that is next is written; and between frames the current buffer is the
\* initially-next one after an odd number of frames, the initially-current one
\* after an even number.
SwapOnlyFlipsRoles ==
    /\ [](targetA # targetB /\ {targetA, targetB} = {InitiallyCurrent, InitiallyNext})
    /\ [](pc \in {"animate", "register"} =>
              targetA = IF odd THEN InitiallyNext ELSE InitiallyCurrent)
    /\ [][pc = "swap" => (tex' = tex /\ targetA' = targetB /\ targetB' = targetA)]_vars
    /\ [][(pc \notin {"animate", "register"} /\ pc # "swap") =>
              (UNCHANGED <<targetA, targetB>> /\ tex'[targetA] = tex[targetA])]_vars

\* an even number of frames, at least two, has run and the initially-current
\* buffer is current again, holding a field other than the other buffer's
SwapOnlyFlipsRolesWitness ==
    /\ pc = "animate" /\ effect = "live" /\ ~odd
    /\ targetA = InitiallyCurrent
    /\ ~AllZero(tex[targetA])
    /\ tex[targetA] # tex[targetB]

\* the mouse and touch handlers, lines 235-270
InputHandler ==
    onMouseMove \/ (\E button \in Buttons : onMouseDown(button)) \/ MouseUp
    \/ onTouchStart \/ onTouchMove \/ onTouchEnd

\* C17: the contents of the field buffers change only in the simulation pass
\* of a frame (and when teardown releases them), the roles only in the swap.
\* The display pass, the bloom pass, every mouse and touch handler and the
\* resize handler leave both buffers and the roles as they were; a mouse or
\* touch handler changes the pointer state only, the resize handler the window
\* size and the aspect uniform only.
OnlyPassWritesFields ==
    /\ [][tex' # tex => (pc = "simulate" \/ (effect = "live" /\ effect' = "cleaned"))]_vars
    /\ [][<<targetA, targetB>>' # <<targetA, targetB>> => pc = "swap"]_vars
    /\ [][(DisplayPass \/ Bloom \/ InputHandler \/ onResize) => UNCHANGED bufVars]_vars
    /\ [][InputHandler =>
              UNCHANGED <<bufVars, uniVars, aspect, win, pc, listening, pending, lifeVars>>]_vars
    /\ [][onResize =>
              UNCHANGED <<bufVars, uniVars, ptrVars, pc, listening, pending, lifeVars>>]_vars

\* between two frames, over a hot field: the pointer was moved in the square
\* window, the window was resized after that, and a handler ran since the snapshot
OnlyPassWritesFieldsWitness ==
    /\ pc = "animate" /\ effect = "live" /\ handled >= 1
    /\ win = <<600, 1200>> /\ mouse.y = Normalize(60, 600)
    /\ ~AllZero(tex[targetA])
    /\ tex[targetA] # tex[targetB]

\* the next frame is one the exploration leaves out: its snapshot would have
\* the pen down over a field hotter than MaxDrawHeat
DrawCapped ==
    /\ pc = "animate" /\ mouse.z = 1
    /\ \E c \in Cells : tex[targetA][c] > MaxDrawHeat

MaxShadeHeat == 120
\* line 159: crustNoise * 0.15 with fbm below 0.5 + 0.25 (lines 120-125)
MaxCrustCut == 11
\* line 134: if (heat < 0.01) discard
DiscardBelow == 1
\* line 167: if (noisyHeat < 0.15)
CrustEdge == 15
\* line 169: else if (noisyHeat < 0.4)
MagmaEdge == 40
\* line 172: (noisyHeat - 0.4) / 0.6 is 1 at heat 1.0, where bright is reached
MaxStop == 100
\* line 179: gl_FragColor = vec4(col, 1.0)
AlphaOpaque == 100

\* lines 161-164
rock == <<5, 0, 0>>
magma == <<80, 10, 0>>
lava == <<100, 40, 0>>
bright == <<100, 90, 50>>

\* the ramp's colours are kept as numerators over RampDen, which the three
\* interpolation factors h^2 (45 - 2h) / 3375, (h - 15) / 25 and (h - 40) / 60
\* divide
RampDen == 13500

\* mix(a, b, t), t in 1/RampDen
MixRamp(a, b, t) == [i \in 1..3 |-> a[i] * RampDen + (b[i] - a[i]) * t]

\* the cubic is applied without clamping its argument
SmoothstepUnclamped(h) ==
    (h * h * (3 * CrustEdge - 2 * h) * RampDen) \div (CrustEdge * CrustEdge * CrustEdge)

\* smoothstep(0.0, 0.15, h), in 1/RampDen
SmoothstepCrust(h) ==
    IF h <= 0
    THEN 0
    ELSE IF h >= CrustEdge
         THEN RampDen
         ELSE (h * h * (3 * CrustEdge - 2 * h) * RampDen) \div (CrustEdge * CrustEdge * CrustEdge)

\* line 168
Seg1(h) == MixRamp(rock, magma, SmoothstepCrust(h))
\* line 170
Seg2(h) == MixRamp(magma, lava, ((h - CrustEdge) * RampDen) \div (MagmaEdge - CrustEdge))
\* line 172
Seg3(h) == MixRamp(lava, bright, ((h - MagmaEdge) * RampDen) \div (MaxStop - MagmaEdge))

\* the upper threshold is tested first
BranchHighFirst(h) == IF h < MagmaEdge THEN 2 ELSE IF h < CrustEdge THEN 1 ELSE 3

\* lines 167-173: the branch taken
Branch(h) == IF h < CrustEdge THEN 1 ELSE IF h < MagmaEdge THEN 2 ELSE 3

\* lines 166-173
Ramp(h) ==
    CASE Branch(h) = 1 -> Seg1(h)
      [] Branch(h) = 2 -> Seg2(h)
      [] OTHER -> Seg3(h)

\* lines 145 and 149 over a flat field: the normal is (0, 0, 1), so that diff
\* is 1 / sqrt(1.5), 8 tenths
FlatDiff == 8
\* line 154 over a flat field: 0.8165^32, 0 tenths
FlatSpec == 0

\* lines 176-177: col += spec * 0.8; col *= (0.8 + diff * 0.2), spec and diff in
\* tenths, the result over 50 * RampDen
Lit(c, spec, diff) == [i \in 1..3 |-> (c[i] + 8 * spec * RampDen) * (40 + diff)]

\* line 132 over a flat field
SampledHeat == tex[dispTex][<<0, 0>>] \div 10

\* lines 127-180 for one fragment
Shade ==
    /\ pc = "bloom"
    /\ frag.stage = "input"
    /\ frag' = IF SampledHeat < DiscardBelow
               THEN [frag EXCEPT !.stage = "discarded", !.heat = SampledHeat]
               ELSE [frag EXCEPT !.stage = "shaded",
                                 !.heat = SampledHeat,
                                 !.noisy = SampledHeat - frag.cut,
                                 !.spec = FlatSpec,
                                 !.diff = FlatDiff,
                                 !.ramp = Ramp(SampledHeat - frag.cut),
                                 !.col = Lit(Ramp(SampledHeat - frag.cut), FlatSpec, FlatDiff),
                                 !.alpha = AlphaOpaque]
    /\ UNCHANGED <<bufVars, uniVars, aspect, ptrVars, win, pc, listening, pending, histVars,
                   handled, lifeVars, smoke, odd>>

\* ---- the shader of the other version of the component (src/unnamed/part_001)
\* lines 130-134 of part_001 (magma and lava differ from lines 162-163 above)
crust == <<5, 0, 0>>
magma2 == <<50, 5, 0>>
lava2 == <<100, 30, 0>>
core == <<100, 80, 20>>
white == <<100, 100, 100>>
\* part_001 line 144: else if (texHeat < 0.7)
CoreEdge == 70
\* part_001 line 140: smoothstep(0.0, 0.1, texHeat)
AlphaEdge == 10

\* clamp(t, 0.0, 1.0), in 1/RampDen
Clamp01(t) == Max2(0, Min2(t, RampDen))

\* part_001 lines 137-150
Ramp2(h) ==
    IF h < CrustEdge
    THEN MixRamp(crust, magma2, SmoothstepCrust(h))
    ELSE IF h < MagmaEdge
         THEN MixRamp(magma2, lava2, ((h - CrustEdge) * RampDen) \div (MagmaEdge - CrustEdge))
         ELSE IF h < CoreEdge
              THEN MixRamp(lava2, core, ((h - MagmaEdge) * RampDen) \div (CoreEdge - MagmaEdge))
              ELSE MixRamp(core, white,
                           Clamp01(((h - CoreEdge) * RampDen) \div (MaxStop - CoreEdge)))

\* part_001 lines 127, 140: alpha, to the nearest hundredth
Alpha2(h) ==
    IF h >= CrustEdge \/ h >= AlphaEdge
    THEN AlphaOpaque
    ELSE IF h <= 0
         THEN 0
         ELSE Round(h * h * (3 * AlphaEdge - 2 * h) * AlphaOpaque,
                    AlphaEdge * AlphaEdge * AlphaEdge)

\* part_001 lines 116-153 for one fragment
Shade2 ==
    /\ pc = "bloom"
    /\ frag.stage = "input"
    /\ frag' = IF SampledHeat < DiscardBelow
               THEN [frag EXCEPT !.stage = "discarded2", !.heat = SampledHeat]
               ELSE [frag EXCEPT !.stage = "shaded2",
                                 !.heat = SampledHeat,
                                 !.noisy = SampledHeat - frag.cut,
                                 !.ramp = Ramp2(SampledHeat - frag.cut),
                                 !.col = Ramp2(SampledHeat - frag.cut),
                                 !.alpha = Alpha2(SampledHeat - frag.cut)]
    /\ UNCHANGED <<bufVars, uniVars, aspect, ptrVars, win, pc, listening, pending, histVars,
                   handled, lifeVars, smoke, odd>>

\* the display pass is running over a flat field; the fragment's crust noise is
\* any value the noise can take
DisplayInit ==
    /\ targetA = "rt1"
    /\ targetB = "rt2"
    /\ \E h \in 0..MaxShadeHeat :
          tex = [r \in RTs |-> IF r = "rt1" THEN [c \in Cells |-> 10 * h] ELSE ZeroField]
    /\ prev = "rt2"
    /\ simMouse = [x |-> PosScale \div 2, y |-> PosScale \div 2, z |-> 0]
    /\ mouse = [x |-> PosScale \div 2, y |-> PosScale \div 2, z |-> 0]
    /\ win \in Viewports
    /\ aspect = win
    /\ dispTex = "rt1"
    /\ material = "displayMat"
    /\ pc = "bloom"
    /\ listening = TRUE
    /\ pending = 0
    /\ written = "rt1"
    /\ sampled = "rt1"
    /\ primary = "idle"
    /\ touches = 0
    /\ handled = 0
    /\ effect = "live"
    /\ disposed = {}
    /\ lost = {}
    /\ smoke = SmokeStart
    /\ odd = TRUE
    /\ \E c \in 0..MaxCrustCut : frag = [NoFragment EXCEPT !.stage = "input", !.cut = c]

DisplaySpec == DisplayInit /\ [][Shade \/ Shade2]_vars

\* relative luminance of a colour (Rec. 709 weights, in thousandths)
Lum(c) == 213 * c[1] + 715 * c[2] + 72 * c[3]

\* noise-adjusted heats, from below 0 to above the last stop
NoisyHeats == (0 - MaxCrustCut - 1)..MaxShadeHeat

\* C19: the colour the ramp gave to a shaded fragment is no brighter than the
\* colour it gives to any higher noise-adjusted heat and no darker than the
\* colour it gives to any lower one, below 0, on the thresholds and above the
\* last stop included; in the component's shader and in its other version.
RampMonotone ==
    /\ frag.stage = "shaded" =>
          \A h \in NoisyHeats :
              /\ h > frag.noisy => Lum(frag.ramp) <= Lum(Ramp(h))
              /\ h < frag.noisy => Lum(Ramp(h)) <= Lum(frag.ramp)
    /\ frag.stage = "shaded2" =>
          \A h \in NoisyHeats :
              /\ h > frag.noisy => Lum(frag.ramp) <= Lum(Ramp2(h))
              /\ h < frag.noisy => Lum(Ramp2(h)) <= Lum(frag.ramp)

\* a fragment above the last stop, brighter than the last stop's colour, whose
\* noise-adjusted heat is lower than the heat sampled
RampMonotoneWitness ==
    /\ frag.stage = "shaded"
    /\ frag.noisy > MaxStop /\ frag.cut > 0
    /\ Lum(frag.ramp) > Lum(Seg3(MaxStop))

\* the stops of the ramp, lines 167-172
Stops == <<0, CrustEdge, MagmaEdge, MaxStop>>

\* heat h lies in the k-th segment, the last stop belonging to the last one
InSegment(k, h) ==
    /\ Stops[k] <= h
    /\ h < Stops[k + 1] \/ (k = 3 /\ h = MaxStop)

AlphaSoftEdge ==
    frag.stage = "shaded" =>
        /\ frag.heat = DiscardBelow => frag.alpha = 0
        /\ frag.alpha <= AlphaOpaque

\* C22: after a context loss both field buffers are reallocated and zeroed and
\* the loop goes on: every frame that runs works on two render targets that are
\* not of the lost context, and the first frame after the loss starts from an
\* all-zero field.
ContextLossRecovers ==
    pc # "animate" => ({targetA, targetB} \cap lost = {})

\* C23: the aspect uniform is the window's width over its height as of mount
\* or of the last resize: it changes in the resize handler only, which sets it
\* to the new size and changes no field cell, no role and no pointer value, and
\* every simulation pass computes the brush distance with it.
AspectFollowsResize ==
    /\ [](aspect = win)
    /\ [][aspect' # aspect => (onResize /\ aspect' = win')]_vars
    /\ [][win' # win => UNCHANGED <<tex, targetA, targetB, mouse, simMouse>>]_vars
    /\ [](pc = "swap" =>
             \A c \in Cells :
                 tex[written][c]
                     = Max2(Cooled(tex[prev], c[1], c[2])
                            + Injection(c[1], c[2], simMouse, win), 0))

\* a pen-down pass after a resize from the square to the tall window (the
\* pointer was placed in the square one): the aspect of before the resize
\* would have given another field
AspectFollowsResizeWitness ==
    /\ pc = "swap" /\ simMouse.z = 1 /\ effect = "live"
    /\ win = <<600, 1200>> /\ mouse.y = Normalize(60, 600)
    /\ tex[written] # Step(tex[prev], simMouse, <<600, 600>>)

\* how far inside the brush a cell at distance len is, in hundredths of the radius
Inside(len) == ((BrushRadius - len) * 100) \div BrushRadius

\* C24: in one pass, a cell at the brush radius or farther from the snapshot
\* position (the distance taken with x scaled by the aspect) gets the cooled
\* blend of the sampled values and nothing else; so does a cell inside the
\* radius when the pen is up; a cell inside the radius when the pen is down
\* gets, on top of it, 0.8 times the cubic t * t * (3 - 2 * t) of its depth t
\* inside the brush, which is all of 0.8 at the pointer itself.
BrushInjects ==
    pc = "swap" =>
        \A c \in Cells :
            LET len2 == Len2(c[1], c[2], simMouse, aspect)
                base == Cooled(tex[prev], c[1], c[2])
                t == Inside(ISqrt(len2))
            IN  /\ (len2 >= BrushRadius * BrushRadius \/ simMouse.z = 0) =>
                       tex[written][c] = Max2(base, 0)
                /\ (len2 < BrushRadius * BrushRadius /\ simMouse.z = 1) =>
                       tex[written][c]
                           = Max2(base + Round(t * t * (300 - 2 * t) * InjectionStrength, 1000000), 0)
                /\ (len2 = 0 /\ simMouse.z = 1) =>
                       tex[written][c] = Max2(base + InjectionStrength, 0)

\* a pen-down pass over a warm field with one cell inside the brush, off the
\* pointer, that got part of the injection, and a cell outside that got none
BrushInjectsWitness ==
    /\ pc = "swap" /\ simMouse.z = 1
    /\ \E c \in Cells :
          /\ Len2(c[1], c[2], simMouse, aspect) \in 1..(BrushRadius * BrushRadius - 1)
          /\ tex[written][c] > Max2(Cooled(tex[prev], c[1], c[2]), 0)
          /\ tex[written][c] < Cooled(tex[prev], c[1], c[2]) + InjectionStrength
    /\ \E c \in Cells :
          /\ Len2(c[1], c[2], simMouse, aspect) >= BrushRadius * BrushRadius
          /\ tex[written][c] > 0

\* ============================================================== SmokeCanvas
\* The second component of the file (lines 300-419).  Its state is the record
\* smoke; the variables of FlameCanvas are left alone.

\* frames of SmokeCanvas that are followed
MaxSmokeSteps == 4

flameVars ==
    <<targetA, targetB, tex, prev, simMouse, aspect, dispTex, material, mouse, win, pc,
      listening, pending, written, sampled, primary, touches, handled, effect, disposed,
      lost, odd, frag>>

\* lines 387-388: dx *= 0.9, rounded towards 0
Damp(d) == IF d >= 0 THEN (d * 9) \div 10 ELSE 0 - (((0 - d) * 9) \div 10)

\* lines 372-379
SmokeSnapshot ==
    /\ smoke.pc = "animate"
    /\ (~smoke.listening) \/ smoke.pending > 0
    /\ smoke.gen[smoke.rtA] < MaxSmokeSteps
    /\ smoke' = [smoke EXCEPT !.uTexture = smoke.rtA,
                              !.uMouse = [x |-> smoke.mouse.x, y |-> PosScale - smoke.mouse.y,
                                          z |-> smoke.mouse.dx, w |-> smoke.mouse.dy],
                              !.pending = IF @ > 0 THEN @ - 1 ELSE 0,
                              !.pc = "simulate"]
    /\ UNCHANGED flameVars

\* lines 381-383: the scene is rendered into rtB, reading uTexture
SmokeSimPass ==
    /\ smoke.pc = "simulate"
    /\ smoke' = [smoke EXCEPT !.gen[smoke.rtB] = smoke.gen[smoke.uTexture] + 1,
                              !.written = smoke.rtB,
                              !.pc = "swap"]
    /\ UNCHANGED flameVars

\* line 385
SmokeSwap ==
    /\ smoke.pc = "swap"
    /\ smoke' = [smoke EXCEPT !.rtA = smoke.rtB, !.rtB = smoke.rtA, !.pc = "screen"]
    /\ UNCHANGED flameVars

\* line 387: the same scene, with simMaterial and its uniforms as they are, is
\* rendered to the canvas
SmokeScreenPass ==
    /\ smoke.pc = "screen"
    /\ smoke' = [smoke EXCEPT !.screen = smoke.uTexture,
                              !.shown = smoke.gen[smoke.uTexture] + 1,
                              !.pc = "damp"]
    /\ UNCHANGED flameVars

\* lines 389-390
SmokeDamp ==
    /\ smoke.pc = "damp"
    /\ smoke' = [smoke EXCEPT !.mouse.dx = Damp(@), !.mouse.dy = Damp(@), !.pc = "request"]
    /\ UNCHANGED flameVars

\* line 392; the first call returns into the effect body, which registers the
\* listener (line 407)
SmokeRequest ==
    /\ smoke.pc = "request"
    /\ smoke' = [smoke EXCEPT !.pending = @ + 1, !.listening = TRUE, !.pc = "animate"]
    /\ UNCHANGED flameVars

\* lines 397-404
handleMove ==
    /\ smoke.pc = "animate"
    /\ smoke.listening
    /\ \E cx \in ClientXs, cy \in ClientYs, v \in Viewports :
        LET x == Normalize(cx, v[1])
            y == Normalize(cy, v[2])
        IN  /\ <<x, y>> # <<smoke.mouse.x, smoke.mouse.y>>
            /\ smoke' = [smoke EXCEPT !.mouse = [x |-> x, y |-> y,
                                                 dx |-> x - smoke.mouse.x,
                                                 dy |-> y - smoke.mouse.y]]
    /\ UNCHANGED flameVars

SmokeNext ==
    SmokeSnapshot \/ SmokeSimPass \/ SmokeSwap \/ SmokeScreenPass \/ SmokeDamp
    \/ SmokeRequest \/ handleMove

SmokeSpec == Init /\ [][SmokeNext]_vars

\* C26: in every frame of SmokeCanvas the on-screen pass, which follows the
\* swap, samples the render target the simulation pass of the frame wrote,
\* which is the current one after the swap.
SmokeShowsWritten ==
    smoke.pc \in {"damp", "request"} =>
        (smoke.screen = smoke.written /\ smoke.screen = smoke.rtA)

\* what the on-screen pass of SmokeCanvas does: it samples the render target
\* the simulation pass read, and draws one step past it, the state just written
SmokeRedrawsStep ==
    smoke.pc \in {"damp", "request"} =>
        /\ smoke.screen = smoke.rtB /\ smoke.screen # smoke.written
        /\ smoke.shown = smoke.gen[smoke.written]

\* line 8: mouse.current at mount
InitialPointer == [x |-> PosScale \div 2, y |-> PosScale \div 2, z |-> 1]

WholePositions ==
    {<<InitialPointer.x, InitialPointer.y>>}
    \cup {<<Normalize(cx, v[1]), Normalize(cy, v[2])>> :
             cx \in ClientXs, cy \in ClientYs, v \in Viewports}

\* C28: a snapshot is never torn. The pointer changes only between frames, in
\* whole handlers, each of which leaves x and y of one event; the snapshot
\* copies x, y and the pen flag in one step from what the last handler left;
\* so the position a pass uses is always one of a single event (or the one of
\* mount), with its y flipped.
SnapshotNotTorn ==
    /\ [](<<mouse.x, mouse.y>> \in WholePositions)
    /\ [](pc # "animate" =>
             /\ <<simMouse.x, PosScale - simMouse.y>> \in WholePositions
             /\ simMouse = [x |-> mouse.x, y |-> PosScale - mouse.y, z |-> mouse.z])
    /\ [][mouse' # mouse => (pc = "animate" /\ pc' = "animate")]_vars
    /\ [][simMouse' # simMouse =>
              (pc = "animate" /\ mouse' = mouse
               /\ simMouse' = [x |-> mouse.x, y |-> PosScale - mouse.y, z |-> mouse.z])]_vars

\* a pass that uses the position of the second of two pointer events handled
\* since the frame before, both coordinates away from those of mount
SnapshotNotTornWitness ==
    /\ pc = "swap" /\ handled = 2 /\ effect = "live"
    /\ simMouse.x # InitialPointer.x
    /\ simMouse.y # PosScale - InitialPointer.y

\* C29: with several fingers down, a finger that leaves lifts the pen although
\* others stay on the screen; an event that leaves the number of fingers as it
\* is (a touch-move of a remaining finger among them) moves the pointer to the
\* event's position and does not put the pen down again; the pen goes down
\* again only in a touch-start or a press of the primary button.
TouchEndLiftsPen ==
    /\ [][(touches > 1 /\ touches' = touches - 1) =>
              (mouse'.z = 0 /\ mouse'.x = mouse.x /\ mouse'.y = mouse.y)]_vars
    /\ [][onTouchMove =>
              /\ mouse'.z = mouse.z
              /\ \E cx \in ClientXs, cy \in ClientYs :
                    /\ mouse'.x = Normalize(cx, win[1])
                    /\ mouse'.y = Normalize(cy, win[2])]_vars
    /\ [][(mouse.z = 0 /\ mouse'.z = 1) => (onTouchStart \/ onMouseDown(0))]_vars

\* a finger is still on the screen, the frame before ran with the pen up, and
\* the one event since then moved the pointer and left the pen up
TouchEndLiftsPenWitness ==
    /\ pc = "animate" /\ handled = 1 /\ touches = 1 /\ effect = "live"
    /\ simMouse.z = 0 /\ mouse.z = 0
    /\ mouse.y # PosScale - simMouse.y

\* C30: heat is bounded.  Frame after frame, from the zeroed field and from
\* the field with every cell at (0.8 - 0.002) / (1 - 0.985) = 53.2, with the
\* pen down or up at any sampled position and either window shape, no cell of
\* either buffer ever holds more than 53.2.
HeatBounded ==
    \A r \in RTs : \A c \in Cells : tex[r][c] <= HeatCap

\* the pen has been held down over the field until the field stopped changing:
\* the pass about to run reproduces the hot field it reads
HeatBoundedWitness ==
    /\ pc = "simulate" /\ simMouse.z = 1
    /\ FieldMax(tex[prev]) > InjectionStrength
    /\ Step(tex[prev], simMouse, aspect) = tex[prev]

====
